---- MODULE Spec2Model ----
(***************************************************************************)
(* SimpliHealth: the /api/process-health-input route (five-field variant), *)
(* the chat component that calls it and the typing card it shows.          *)
(*                                                                         *)
(* JavaScript strings are sequences of one-character strings.  JavaScript  *)
(* values are tagged records of one shape, so that any two of them can be  *)
(* compared.                                                               *)
(***************************************************************************)
EXTENDS Integers, Sequences, FiniteSets, TLC

VARIABLES
    pc,             \* POST: position of the turn
    request,        \* POST: the body of the request being served
    modelOut,       \* processHealthInput: `response`, the model's reply
    extraction,     \* processHealthInput(...): the call and its outcome
    trials,         \* fetchClinicalTrials(...) and the .catch chained on it
    advice,         \* generateHealthAdvice(...): the call and its outcome
    response,       \* what POST returned for this turn
    messages,       \* ChatDisplay: useState([])
    inputValue,     \* ChatDisplay: useState('')
    isLoading,      \* ChatDisplay: useState(false)
    inflight,       \* ChatDisplay: the fetches awaited by calls of handleSubmit
    sent,           \* ChatDisplay: the requests sent so far
    rendered,       \* ChatDisplay: the state values of the last render, which
                    \*   the handlers and the form of that render hold
    typing          \* TypingCard: the three useTypingEffect hooks of a card

serverVars == <<pc, request, modelOut, extraction, trials, advice, response>>
chatVars == <<messages, inputValue, isLoading, inflight, sent, rendered>>
cardVars == <<typing>>
vars == <<serverVars, chatVars, cardVars>>

----------------------------------------------------------------------------
(* Bounds *)

\* longest generated user input, in characters
MaxInputLen == 2
\* most studies a registry reply carries
MaxStudies == 6
\* most entries of a conversationHistory sent to the route
MaxHistory == 1
\* most submissions the chat component accepts in a run
MaxSubmits == 3

----------------------------------------------------------------------------
(* Characters and strings *)

LowerLetters == <<"a", "b", "c", "d", "e", "f", "g", "h", "i", "j", "k", "l", "m",
                  "n", "o", "p", "q", "r", "s", "t", "u", "v", "w", "x", "y", "z">>
UpperLetters == <<"A", "B", "C", "D", "E", "F", "G", "H", "I", "J", "K", "L", "M",
                  "N", "O", "P", "Q", "R", "S", "T", "U", "V", "W", "X", "Y", "Z">>
DigitChars == <<"0", "1", "2", "3", "4", "5", "6", "7", "8", "9">>

Range(f) == {f[i] : i \in DOMAIN f}

\* \d
IsDigit(c) == c \in Range(DigitChars)
\* \w
IsWordChar(c) == c \in Range(LowerLetters) \cup Range(UpperLetters)
                       \cup Range(DigitChars) \cup {"_"}
\* \s, and what String.prototype.trim strips
IsSpace(c) == c \in {" ", "\t", "\n", "\r", "\f"}
\* what `.` does not match
IsLineTerminator(c) == c \in {"\n", "\r"}

\* String.prototype.toLowerCase, one character
LowerChar(c) ==
    IF c \in Range(UpperLetters)
    THEN LowerLetters[CHOOSE i \in DOMAIN UpperLetters : UpperLetters[i] = c]
    ELSE c
toLowerCase(s) == [i \in DOMAIN s |-> LowerChar(s[i])]

\* s.substring(i - 1, j), 1-based inclusive; empty when j < i
Slice(s, i, j) == IF j < i THEN <<>> ELSE SubSeq(s, i, j)

Min(S) == CHOOSE m \in S : \A k \in S : m <= k
Max(S) == CHOOSE m \in S : \A k \in S : m >= k

\* the literal w occurs in s at position i
LitAt(s, i, w) == /\ i >= 1
                  /\ i + Len(w) - 1 <= Len(s)
                  /\ \A k \in 1..Len(w) : s[i + k - 1] = w[k]
\* the same under the /i flag (w is given in lower case)
LitAtI(s, i, w) == LitAt(toLowerCase(s), i, w)

\* String.prototype.includes
includes(s, w) == \E i \in 1..(Len(s) + 1) : LitAt(s, i, w)
\* String.prototype.endsWith
endsWith(s, w) == Len(s) >= Len(w) /\ LitAt(s, Len(s) - Len(w) + 1, w)

\* String.prototype.trim
trim(s) ==
    LET keep == {i \in DOMAIN s : ~IsSpace(s[i])}
    IN  IF keep = {} THEN <<>> ELSE Slice(s, Min(keep), Max(keep))

\* \b between s[i-1] and s[i]
WordBoundary(s, i) ==
    (i > 1 /\ i - 1 <= Len(s) /\ IsWordChar(s[i - 1]))
        # (i >= 1 /\ i <= Len(s) /\ IsWordChar(s[i]))

\* the character classes of the patterns: \d, \s, \w and [^\.]
InClass(c, class) ==
    CASE class = "digit" -> IsDigit(c)
      [] class = "space" -> IsSpace(c)
      [] class = "word" -> IsWordChar(c)
      [] class = "notDot" -> c # "."

\* last index of the longest run of characters of the class that starts at i
\* (i - 1 when s[i] is not of the class)
RunEnd(s, i, class) ==
    LET stop == {j \in i..Len(s) : ~InClass(s[j], class)}
    IN  IF i > Len(s) THEN i - 1
        ELSE IF stop = {} THEN Len(s) ELSE Min(stop) - 1

\* parseInt of a run of decimal digits
RECURSIVE DigitsValue(_)
DigitsValue(d) ==
    IF d = <<>> THEN 0
    ELSE 10 * DigitsValue(Slice(d, 1, Len(d) - 1))
           + (CHOOSE i \in DOMAIN DigitChars : DigitChars[i] = d[Len(d)]) - 1

W_previous == <<"p", "r", "e", "v", "i", "o", "u", "s">>
W_earlier == <<"e", "a", "r", "l", "i", "e", "r">>
W_symptom == <<"s", "y", "m", "p", "t", "o", "m">>
W_with == <<"w", "i", "t", "h">>
W_have == <<"h", "a", "v", "e">>
W_at == <<"a", "t">>
W_in == <<"i", "n">>
W_and == <<"a", "n", "d">>

----------------------------------------------------------------------------
(* JavaScript values *)

JV(tag, num, str, arr) == [t |-> tag, n |-> num, s |-> str, a |-> arr]
JUndefined == JV("undefined", 0, <<>>, <<>>)
JNull == JV("null", 0, <<>>, <<>>)
JNum(k) == JV("number", k, <<>>, <<>>)
JStr(s) == JV("string", 0, s, <<>>)
JBool(b) == JV("boolean", IF b THEN 1 ELSE 0, <<>>, <<>>)
\* an array of strings
JArr(list) == JV("array", 0, <<>>, list)

\* ToBoolean
Truthy(v) == CASE v.t = "undefined" -> FALSE
               [] v.t = "null" -> FALSE
               [] v.t = "number" -> v.n # 0
               [] v.t = "string" -> v.s # <<>>
               [] v.t = "boolean" -> v.n = 1
               [] OTHER -> TRUE

----------------------------------------------------------------------------
(* processHealthInput: the manual extraction of the catch block *)

\* input.match(/\b(\d+)\b/)?.[1] : the places where the pattern matches
AgeMatches(s) ==
    {i \in 1..Len(s) :
        /\ IsDigit(s[i])
        /\ WordBoundary(s, i)
        /\ WordBoundary(s, RunEnd(s, i, "digit") + 1)}

\* age: parseInt(input.match(/\b(\d+)\b/)?.[1]) || null
manualAge(s) ==
    IF AgeMatches(s) = {} THEN JNull
    ELSE LET i == Min(AgeMatches(s))
             v == JNum(DigitsValue(Slice(s, i, RunEnd(s, i, "digit"))))
         IN  IF Truthy(v) THEN v ELSE JNull

\* /\b(?:at|in)\s+([^\.]+)/i at position i: 0 when it does not match there,
\* otherwise the index where group 1 starts
LocationGroupStart(s, i) ==
    IF ~(WordBoundary(s, i) /\ (LitAtI(s, i, W_at) \/ LitAtI(s, i, W_in))) THEN 0
    ELSE LET k == i + 2
             e == RunEnd(s, k, "space")
         IN  IF e < k THEN 0
             ELSE IF e + 1 <= Len(s) /\ s[e + 1] # "." THEN e + 1
             ELSE IF e > k THEN e   \* \s+ gives one blank back to [^\.]+
             ELSE 0

\* location: (input.match(/\b(?:at|in)\s+([^\.]+)/i)?.[1] || '').trim() || null
manualLocation(s) ==
    LET hits == {i \in 1..Len(s) : LocationGroupStart(s, i) # 0}
    IN  IF hits = {} THEN JNull
        ELSE LET g == LocationGroupStart(s, Min(hits))
                 v == JStr(trim(Slice(s, g, RunEnd(s, g, "notDot"))))
             IN  IF Truthy(v) THEN v ELSE JNull

\* /\b(?:with|have)\s+(\w+)(?:\s+condition)?/i at position i: 0 or the start of group 1
ConditionGroupStart(s, i) ==
    IF ~(WordBoundary(s, i) /\ (LitAtI(s, i, W_with) \/ LitAtI(s, i, W_have))) THEN 0
    ELSE LET k == i + 4
             e == RunEnd(s, k, "space")
         IN  IF e >= k /\ e + 1 <= Len(s) /\ IsWordChar(s[e + 1]) THEN e + 1 ELSE 0

\* condition: (input.match(/\b(?:with|have)\s+(\w+)(?:\s+condition)?/i)?.[1] || null)
manualCondition(s) ==
    LET hits == {i \in 1..Len(s) : ConditionGroupStart(s, i) # 0}
    IN  IF hits = {} THEN JNull
        ELSE LET g == ConditionGroupStart(s, Min(hits))
             IN  JStr(Slice(s, g, RunEnd(s, g, "word")))

\* /symptoms?:?\s*(.+)$/i at position i: 0 or the start of group 1.  The optional
\* s, the optional colon and the blanks are given back one by one until what is
\* left up to the end of the input is one non-empty line.
SymptomsGroupStart(s, i) ==
    IF ~LitAtI(s, i, W_symptom) THEN 0
    ELSE LET p == i + 7
             p1 == IF p <= Len(s) /\ LowerChar(s[p]) = "s" THEN p + 1 ELSE p
             p2 == IF p1 <= Len(s) /\ s[p1] = ":" THEN p1 + 1 ELSE p1
             w == RunEnd(s, p2, "space")
             ok == {g \in p..(w + 1) :
                      /\ g <= Len(s)
                      /\ \A j \in g..Len(s) : ~IsLineTerminator(s[j])}
         IN  IF ok = {} THEN 0 ELSE Max(ok)

\* /\s*,\s*|\s+and\s+/ at position q: 0 when it does not match there, otherwise
\* the index of the last character matched
SeparatorEnd(s, q) ==
    LET a == RunEnd(s, q, "space")
    IN  IF a + 1 <= Len(s) /\ s[a + 1] = ","
        THEN RunEnd(s, a + 2, "space")
        ELSE IF a >= q /\ LitAt(s, a + 1, W_and)
                  /\ RunEnd(s, a + 4, "space") >= a + 4
        THEN RunEnd(s, a + 4, "space")
        ELSE 0

\* String.prototype.split(/\s*,\s*|\s+and\s+/): p is where the current piece
\* starts, q where the next separator is looked for
RECURSIVE SplitFrom(_, _, _)
SplitFrom(s, p, q) ==
    IF q > Len(s) THEN <<Slice(s, p, Len(s))>>
    ELSE IF SeparatorEnd(s, q) = 0 THEN SplitFrom(s, p, q + 1)
    ELSE <<Slice(s, p, q - 1)>>
            \o SplitFrom(s, SeparatorEnd(s, q) + 1, SeparatorEnd(s, q) + 1)
split(s) == SplitFrom(s, 1, 1)

\* Array.prototype.filter(Boolean) on an array of strings
filterBoolean(list) == SelectSeq(list, LAMBDA x : x # <<>>)

\* symptoms: (input.match(/symptoms?:?\s*(.+)$/i)?.[1] || '')
\*               .split(/\s*,\s*|\s+and\s+/).filter(Boolean)
manualSymptoms(s) ==
    LET hits == {i \in 1..Len(s) : SymptomsGroupStart(s, i) # 0}
        group == IF hits = {} THEN <<>>
                 ELSE Slice(s, SymptomsGroupStart(s, Min(hits)), Len(s))
    IN  JArr(filterBoolean(split(group)))

\* the same without toLowerCase
manualIsFollowUpCaseSensitive(s) ==
    JBool(\/ includes(s, W_previous)
          \/ includes(s, W_earlier)
          \/ endsWith(trim(s), <<"?">>))

\* isFollowUp: input.toLowerCase().includes('previous')
\*          || input.toLowerCase().includes('earlier') || input.trim().endsWith('?')
manualIsFollowUp(s) ==
    JBool(\/ includes(toLowerCase(s), W_previous)
          \/ includes(toLowerCase(s), W_earlier)
          \/ endsWith(trim(s), <<"?">>))

----------------------------------------------------------------------------
(* processHealthInput: the model's reply and its parsing *)

\* The reply is a sequence of pieces: "fence" (three backticks), the tag "json", a line
\* break, a blank, free prose, or the text of one JSON document (named below).
DocNames == {"docNew", "docNoLocation", "docFollowUp", "docStrayTopic",
             "docNoSymptoms", "docFollowUpBare", "docNull", "docNumber"}

S_flu == <<"f", "l", "u">>
S_cough == <<"c", "o", "u", "g", "h">>
S_fever == <<"f", "e", "v", "e", "r">>
S_pain == <<"p", "a", "i", "n">>
S_CongoDR == <<"C", "o", "n", "g", "o", " ", "D", "R">>

\* what JSON.parse returns: an object with the six fields read by POST (a field
\* the document lacks reads as undefined), null, or a number
Data(k, age, location, condition, symptoms, isFollowUp, followUpTopic) ==
    [kind |-> k, age |-> age, location |-> location, condition |-> condition,
     symptoms |-> symptoms, isFollowUp |-> isFollowUp,
     followUpTopic |-> followUpTopic]
NoData == Data("none", JUndefined, JUndefined, JUndefined, JUndefined,
               JUndefined, JUndefined)

DocValue(d) ==
    CASE d = "docNew" ->
           Data("object", JNum(43), JStr(S_CongoDR), JStr(S_flu),
                JArr(<<S_cough, S_fever>>), JBool(FALSE), JNull)
      [] d = "docNoLocation" ->
           Data("object", JNull, JNull, JNull, JArr(<<S_cough>>), JBool(FALSE), JNull)
      [] d = "docFollowUp" ->
           Data("object", JNull, JNull, JNull, JArr(<<>>), JBool(TRUE), JStr(S_pain))
      [] d = "docStrayTopic" ->
           Data("object", JNum(43), JStr(S_CongoDR), JNull, JArr(<<>>),
                JBool(FALSE), JStr(S_pain))
      [] d = "docNoSymptoms" ->
           Data("object", JNum(43), JStr(S_CongoDR), JUndefined, JUndefined,
                JUndefined, JUndefined)
      [] d = "docFollowUpBare" ->
           Data("object", JUndefined, JUndefined, JUndefined, JUndefined,
                JBool(TRUE), JUndefined)
      [] d = "docNull" ->
           Data("null", JUndefined, JUndefined, JUndefined, JUndefined,
                JUndefined, JUndefined)
      [] d = "docNumber" ->
           Data("number", JUndefined, JUndefined, JUndefined, JUndefined,
                JUndefined, JUndefined)

Bodies == DocNames \cup {"prose"}
\* the replies the model is taken to give: a body bare, in a json fence, in a
\* fence without tag, between blanks, or in a json fence between blanks
ModelTexts ==
    UNION {{<<b>>,
            <<"fence", "json", "\n", b, "\n", "fence">>,
            <<"fence", "\n", b, "\n", "fence">>,
            <<" ", b, "\n">>,
            <<" ", "fence", "json", "\n", b, "\n", "fence", "\n">>} : b \in Bodies}

IsBlankPiece(x) == x \in {" ", "\n"}

\* .replace(/```json\n|\n```/g, '')
RECURSIVE replaceFences(_)
replaceFences(text) ==
    IF text = <<>> THEN <<>>
    ELSE IF Len(text) >= 3 /\ SubSeq(text, 1, 3) = <<"fence", "json", "\n">>
    THEN replaceFences(Slice(text, 4, Len(text)))
    ELSE IF Len(text) >= 2 /\ SubSeq(text, 1, 2) = <<"\n", "fence">>
    THEN replaceFences(Slice(text, 3, Len(text)))
    ELSE <<Head(text)>> \o replaceFences(Tail(text))

\* const cleanedResponse = response.text().replace(/```json\n|\n```/g, '').trim()
cleanedResponse(text) ==
    LET r == replaceFences(text)
        keep == {i \in DOMAIN r : ~IsBlankPiece(r[i])}
    IN  IF keep = {} THEN <<>> ELSE Slice(r, Min(keep), Max(keep))

\* JSON.parse succeeds on exactly one document
Parses(cleaned) == Len(cleaned) = 1 /\ cleaned[1] \in DocNames

\* what awaiting processHealthInput gives: it returned `value` (from the parsed
\* reply or from the manual extraction) or it raised `error`; calls counts the
\* model.generateContent calls it made
Outcome(st, path, value, err) ==
    [state |-> st, path |-> path, value |-> value, error |-> err, calls |-> 1]

\* the catch block as the three-field variants have it: log and throw again
manualExtractionRethrow(input) ==
    Outcome("raised", "fallback", NoData, "Failed to parse Gemini response")

\* the object literal of the catch block; input.match throws when input is not a string
manualExtraction(input) ==
    IF input.t # "string"
    THEN Outcome("raised", "fallback", NoData, "TypeError: input.match")
    ELSE Outcome("returned", "fallback",
                 Data("object", manualAge(input.s), manualLocation(input.s),
                      manualCondition(input.s), manualSymptoms(input.s),
                      manualIsFollowUp(input.s), JNull),
                 "")

\* the try/catch that ends processHealthInput
parseOrFallback(input, text) ==
    IF Parses(cleanedResponse(text))
    THEN Outcome("returned", "parsed", DocValue(cleanedResponse(text)[1]), "")
    ELSE manualExtraction(input)

\* processHealthInput up to `await model.generateContent(prompt)`: the prompt
\* joins conversationHistory, which throws unless it is an array
promptRaises(conversationHistory) == conversationHistory.t # "array"

\* processHealthInput from `await model.generateContent(prompt)` on; a failed
\* call is outside the try block
processHealthInputSettle(input, reply) ==
    IF reply.ok THEN parseOrFallback(input, reply.text)
    ELSE Outcome("raised", "none", NoData, "GoogleGenerativeAI Error")

----------------------------------------------------------------------------
(* fetchClinicalTrials *)

\* pageSize in the url
PageSize == 5

S_OR == <<" ", "O", "R", " ">>

RECURSIVE join(_, _)
\* Array.prototype.join on an array of strings
join(list, sep) ==
    IF list = <<>> THEN <<>>
    ELSE IF Len(list) = 1 THEN list[1]
    ELSE list[1] \o sep \o join(Tail(list), sep)

\* [...symptoms]
spread(v) == IF v.t = "array" THEN v.a ELSE [i \in DOMAIN v.s |-> <<v.s[i]>>]

\* location.split(' ')[0]
firstToken(s) ==
    LET blanks == {i \in DOMAIN s : s[i] = " "}
    IN  IF blanks = {} THEN s ELSE Slice(s, 1, Min(blanks) - 1)

Promise(st, value, err) == [state |-> st, value |-> value, error |-> err]

NoTrials ==
    [fn |-> Promise("none", <<>>, ""), slot |-> Promise("none", <<>>, ""),
     queries |-> 0, query |-> <<>>, country |-> <<>>, pageSize |-> 0,
     cause |-> "none"]

\* the same with an early `return []` when location or condition is missing
fetchClinicalTrialsStartGuarded(symptoms, location, condition) ==
    IF ~Truthy(location) \/ ~Truthy(condition)
    THEN [NoTrials EXCEPT !.fn = Promise("fulfilled", <<>>, ""), !.cause = "guard"]
    ELSE [NoTrials EXCEPT
            !.fn = Promise("pending", <<>>, ""),
            !.queries = 1,
            !.query = join(spread(symptoms) \o <<condition.s>>, S_OR),
            !.country = firstToken(location.s),
            !.pageSize = PageSize]

\* fetchClinicalTrials up to `await fetch(url)`: spreading symptoms throws unless
\* it is iterable, location.split throws unless location is a string
fetchClinicalTrialsStart(symptoms, location, condition) ==
    IF symptoms.t \notin {"array", "string"}
    THEN [NoTrials EXCEPT !.fn = Promise("rejected", <<>>, "TypeError: symptoms is not iterable"),
                          !.cause = "symptoms"]
    ELSE IF location.t # "string"
    THEN [NoTrials EXCEPT !.fn = Promise("rejected", <<>>, "TypeError: location.split"),
                          !.cause = "location"]
    ELSE [NoTrials EXCEPT
            !.fn = Promise("pending", <<>>, ""),
            !.queries = 1,
            !.query = join(spread(symptoms)
                             \o (IF Truthy(condition) THEN <<condition.s>> ELSE <<>>),
                           S_OR),
            !.country = firstToken(location.s),
            !.pageSize = PageSize]

\* what the registry may do with the query
RegistryReplies ==
    {[kind |-> k, n |-> 0] :
        k \in {"transportError", "notOk", "badJson", "jsonNull", "noStudies"}}
        \cup {[kind |-> "studies", n |-> k] : k \in 0..MaxStudies}

\* the same with a non-success status thrown instead of answered with []
fetchClinicalTrialsSettleThrowing(reply) ==
    CASE reply.kind = "transportError" -> Promise("rejected", <<>>, "TypeError: fetch failed")
      [] reply.kind = "notOk" -> Promise("rejected", <<>>, "Clinical Trials API responded with status")
      [] reply.kind = "badJson" -> Promise("rejected", <<>>, "SyntaxError: Unexpected token")
      [] reply.kind = "jsonNull" -> Promise("rejected", <<>>, "TypeError: data.studies")
      [] reply.kind = "noStudies" -> Promise("fulfilled", <<>>, "")
      [] reply.kind = "studies" -> Promise("fulfilled", [i \in 1..reply.n |-> i], "")

\* fetchClinicalTrials from `await fetch(url)` on.  A study is named by its
\* place in the reply.
fetchClinicalTrialsSettle(reply) ==
    CASE reply.kind = "transportError" -> Promise("rejected", <<>>, "TypeError: fetch failed")
      [] reply.kind = "notOk" -> Promise("fulfilled", <<>>, "")
      [] reply.kind = "badJson" -> Promise("rejected", <<>>, "SyntaxError: Unexpected token")
      [] reply.kind = "jsonNull" -> Promise("rejected", <<>>, "TypeError: data.studies")
      [] reply.kind = "noStudies" -> Promise("fulfilled", <<>>, "")
      [] reply.kind = "studies" -> Promise("fulfilled", [i \in 1..reply.n |-> i], "")

\* the call without the .catch chained on it
catchTrialsMissing(p) == p

\* .catch(error => { console.error(...); return [] }) chained on the call in POST
catchTrials(p) ==
    IF p.state = "rejected" THEN Promise("fulfilled", <<>>, "") ELSE p

----------------------------------------------------------------------------
(* generateHealthAdvice *)

S_TheirPreviousHealthIssue ==
    <<"t", "h", "e", "i", "r", " ", "p", "r", "e", "v", "i", "o", "u", "s", " ",
      "h", "e", "a", "l", "t", "h", " ", "i", "s", "s", "u", "e">>

\* The prompt, by what it asks: the opening sentence (mode, about), the clauses
\* on the person, the sentences that follow in both modes (tail), the sections
\* of the format and the lines of the symptom section.
NoPrompt == [mode |-> "none", about |-> <<>>, person |-> <<>>, tail |-> <<>>,
             format |-> <<>>, symptomLines |-> <<>>]

\* `let prompt = ...` up to the call of model.generateContent, for a record whose
\* symptoms can be read
healthAdvicePrompt(d) ==
    IF Truthy(d.isFollowUp)
    THEN [mode |-> "followUp",
          about |-> IF Truthy(d.followUpTopic) THEN d.followUpTopic.s
                    ELSE S_TheirPreviousHealthIssue,
          person |-> <<>>,
          tail |-> <<"eachSymptom", "seekHelp", "conditionInteraction", "history">>,
          format |-> <<"Answer">>,
          symptomLines |-> <<>>]
    ELSE [mode |-> "advice",
          about |-> <<>>,
          person |-> (IF d.age.t # "null" THEN <<"aged">> ELSE <<>>)
                       \o (IF Truthy(d.location) THEN <<"in">> ELSE <<>>)
                       \o (IF Len(spread(d.symptoms)) > 0 THEN <<"symptoms">>
                           ELSE <<"noSymptoms">>)
                       \o (IF Truthy(d.condition) THEN <<"condition">> ELSE <<>>),
          tail |-> <<"eachSymptom", "seekHelp", "conditionInteraction", "history">>,
          format |-> <<"General Advice">>
                       \o (IF Len(spread(d.symptoms)) > 0
                           THEN <<"Symptom-specific Advice">> ELSE <<>>)
                       \o <<"When to Seek Medical Help">>,
          symptomLines |-> spread(d.symptoms)]

NoAdvice == [state |-> "none", text |-> <<>>, error |-> "", calls |-> 0,
             followUp |-> FALSE, prompt |-> NoPrompt]

S_Rest == <<"R", "e", "s", "t", ".">>
\* the texts the model is taken to answer with
AdviceTexts == {S_Rest, <<>>}
AdviceReplies == {[ok |-> FALSE, text |-> <<>>]}
                    \cup {[ok |-> TRUE, text |-> t] : t \in AdviceTexts}

\* generateHealthAdvice up to `await model.generateContent(prompt)`: outside the
\* follow-up mode the prompt reads symptoms.length, which throws when symptoms
\* is undefined or null
generateHealthAdviceStart(d, conversationHistory) ==
    IF \/ conversationHistory.t # "array"
       \/ (~Truthy(d.isFollowUp) /\ d.symptoms.t \in {"undefined", "null"})
    THEN [NoAdvice EXCEPT !.state = "rejected",
                          !.error = "TypeError: symptoms.length",
                          !.followUp = Truthy(d.isFollowUp)]
    ELSE [NoAdvice EXCEPT !.state = "pending", !.calls = 1,
                          !.followUp = Truthy(d.isFollowUp),
                          !.prompt = healthAdvicePrompt(d)]

\* the same with a failed call made once more
generateHealthAdviceSettleRetrying(a, reply) ==
    IF reply.ok
    THEN [a EXCEPT !.state = "fulfilled", !.text = reply.text]
    ELSE IF a.calls < 2
    THEN [a EXCEPT !.calls = @ + 1]
    ELSE [a EXCEPT !.state = "rejected", !.error = "GoogleGenerativeAI Error"]

\* generateHealthAdvice from `await model.generateContent(prompt)` on
generateHealthAdviceSettle(a, reply) ==
    IF reply.ok
    THEN [a EXCEPT !.state = "fulfilled", !.text = reply.text]
    ELSE [a EXCEPT !.state = "rejected", !.error = "GoogleGenerativeAI Error"]

----------------------------------------------------------------------------
(* POST *)

OK == 200
ServerError == 500

NoResponse ==
    [status |-> 0, fields |-> {}, extractedData |-> NoData,
     clinicalTrials |-> <<>>, healthAdvice |-> <<>>, error |-> ""]

\* return NextResponse.json({ extractedData, clinicalTrials, healthAdvice })
successResponse(extractedData, clinicalTrials, healthAdvice) ==
    [status |-> OK,
     fields |-> {"extractedData", "clinicalTrials", "healthAdvice"},
     extractedData |-> extractedData, clinicalTrials |-> clinicalTrials,
     healthAdvice |-> healthAdvice, error |-> ""]

\* the error object sent without { status: 500 }
errorResponseWithoutStatus(message) ==
    [NoResponse EXCEPT !.status = OK, !.fields = {"error"}, !.error = message]

\* return NextResponse.json({ error: error.message }, { status: 500 })
errorResponse(message) ==
    [NoResponse EXCEPT !.status = ServerError, !.fields = {"error"},
                       !.error = message]

\* Promise.race in the place of Promise.all: settled as soon as one of the two is
PromiseRace(slot, adv) ==
    IF slot.state \in {"rejected", "fulfilled"} THEN Promise(slot.state, <<>>, slot.error)
    ELSE IF adv.state \in {"rejected", "fulfilled"} THEN Promise(adv.state, <<>>, adv.error)
    ELSE Promise("pending", <<>>, "")

\* Promise.all([...]): rejected as soon as one of the two is, fulfilled once both are
PromiseAll(slot, adv) ==
    IF slot.state = "rejected" THEN Promise("rejected", <<>>, slot.error)
    ELSE IF adv.state = "rejected" THEN Promise("rejected", <<>>, adv.error)
    ELSE IF slot.state = "fulfilled" /\ adv.state = "fulfilled"
    THEN Promise("fulfilled", <<>>, "")
    ELSE Promise("pending", <<>>, "")

NoRequest == [valid |-> FALSE, userInput |-> JUndefined,
              conversationHistory |-> JUndefined]
NoModelOut == [ok |-> FALSE, text |-> <<>>]
NoExtraction == [state |-> "none", path |-> "none", value |-> NoData,
                 error |-> "", calls |-> 0]

InputAlphabet == {"4", "0", "a", " ", "?"}
InputScenario ==
    <<"I", " ", "a", "m", " ", "4", "3", " ", "a", "t", " ", "C", "o", "n", "g",
      "o", ".", " ", "I", " ", "h", "a", "v", "e", " ", "f", "l", "u", ".", " ",
      "s", "y", "m", "p", "t", "o", "m", "s", ":", " ", "c", "o", "u", "g", "h",
      ",", " ", "f", "e", "v", "e", "r", " ", "a", "n", "d", " ", "r", "a", "s", "h">>
InputFollowUp ==
    <<"W", "h", "a", "t", " ", "a", "b", "o", "u", "t", " ", "t", "h", "a", "t",
      " ", "a", "g", "a", "i", "n", "?">>
InputEarlier ==
    <<"A", "s", " ", "s", "a", "i", "d", " ", "E", "a", "r", "l", "i", "e", "r",
      ",", " ", "4", "3", "y", "o", " ", "i", "n", " ", "P", "e", "r", "u">>
\* the texts a request may carry as userInput
InputTexts ==
    UNION {[1..n -> InputAlphabet] : n \in 0..MaxInputLen}
        \cup {InputScenario, InputFollowUp, InputEarlier}

HistoryEntry == <<"u", "s", "e", "r", ":", " ", "h", "i">>
\* the bodies a request may carry: not JSON at all, or an object whose
\* userInput is missing, null or a string and whose conversationHistory is
\* missing, null or an array of strings
RequestBodies ==
    {NoRequest}
        \cup {[valid |-> TRUE, userInput |-> u, conversationHistory |-> h] :
                u \in {JUndefined, JNull} \cup {JStr(s) : s \in InputTexts},
                h \in {JUndefined, JNull}
                        \cup {JArr([i \in 1..n |-> HistoryEntry]) : n \in 1..MaxHistory}}

\* const { userInput, conversationHistory = [] } = await request.json()
History(body) ==
    IF body.conversationHistory.t = "undefined" THEN JArr(<<>>)
    ELSE body.conversationHistory

ModelReplies == {[ok |-> FALSE, text |-> <<>>]}
                    \cup {[ok |-> TRUE, text |-> t] : t \in ModelTexts}

ServerInit ==
    /\ pc = "idle"
    /\ request = NoRequest
    /\ modelOut = NoModelOut
    /\ extraction = NoExtraction
    /\ trials = NoTrials
    /\ advice = NoAdvice
    /\ response = NoResponse

\* A request arrives and POST runs up to `await processHealthInput(...)`, that
\* is up to the model call made there.
Receive(body) ==
    /\ pc \in {"idle", "responded"}
    /\ request' = body
    /\ modelOut' = NoModelOut
    /\ trials' = NoTrials
    /\ advice' = NoAdvice
    /\ IF ~body.valid
       THEN /\ extraction' = NoExtraction
            /\ response' = errorResponse("SyntaxError: Unexpected token")
            /\ pc' = "responded"
       ELSE IF promptRaises(History(body))
       THEN /\ extraction' = [NoExtraction EXCEPT !.state = "raised",
                                                  !.error = "TypeError: conversationHistory.join"]
            /\ response' = errorResponse("TypeError: conversationHistory.join")
            /\ pc' = "responded"
       ELSE /\ extraction' = [NoExtraction EXCEPT !.state = "pending", !.calls = 1]
            /\ response' = NoResponse
            /\ pc' = "extracting"
    /\ UNCHANGED <<chatVars, cardVars>>

\* The model call of processHealthInput settles; processHealthInput returns or
\* raises, and a raise lands in the catch block of POST.
ExtractSettle(reply) ==
    /\ pc = "extracting"
    /\ modelOut' = reply
    /\ extraction' = processHealthInputSettle(request.userInput, reply)
    /\ IF extraction'.state = "raised"
       THEN response' = errorResponse(extraction'.error) /\ pc' = "responded"
       ELSE response' = response /\ pc' = "extracted"
    /\ UNCHANGED <<request, trials, advice, chatVars, cardVars>>

\* POST destructures extractedData and starts both calls of Promise.all.
Dispatch ==
    /\ pc = "extracted"
    /\ modelOut' = NoModelOut
    /\ IF extraction.value.kind = "null"
       THEN /\ response' = errorResponse("TypeError: Cannot destructure")
            /\ pc' = "responded"
            /\ UNCHANGED <<trials, advice>>
       ELSE LET d == extraction.value
                t == fetchClinicalTrialsStart(d.symptoms, d.location, d.condition)
            IN  /\ trials' = [t EXCEPT !.slot = catchTrials(t.fn)]
                /\ advice' = generateHealthAdviceStart(d, History(request))
                /\ pc' = "inflight"
                /\ UNCHANGED response
    /\ UNCHANGED <<request, extraction, chatVars, cardVars>>

\* The registry answers (or the transport fails).
TrialsSettle(reply) ==
    /\ trials.fn.state = "pending"
    /\ LET p == fetchClinicalTrialsSettle(reply)
       IN  trials' = [trials EXCEPT !.fn = p, !.slot = catchTrials(p),
                                    !.cause = reply.kind]
    /\ UNCHANGED <<pc, request, modelOut, extraction, advice, response, chatVars, cardVars>>

\* The model call of generateHealthAdvice settles.
AdviceSettle(reply) ==
    /\ advice.state = "pending"
    /\ advice' = generateHealthAdviceSettle(advice, reply)
    /\ UNCHANGED <<pc, request, modelOut, extraction, trials, response, chatVars, cardVars>>

\* `await Promise.all(...)` settles and POST returns.
Respond ==
    /\ pc = "inflight"
    /\ PromiseAll(trials.slot, advice).state # "pending"
    /\ response' = IF PromiseAll(trials.slot, advice).state = "rejected"
                   THEN errorResponse(PromiseAll(trials.slot, advice).error)
                   ELSE successResponse(extraction.value, trials.slot.value,
                                        advice.text)
    /\ pc' = "responded"
    /\ UNCHANGED <<request, modelOut, extraction, trials, advice, chatVars, cardVars>>

Next ==
    \/ \E body \in RequestBodies : Receive(body)
    \/ \E reply \in ModelReplies : ExtractSettle(reply)
    \/ Dispatch
    \/ \E reply \in RegistryReplies : TrialsSettle(reply)
    \/ \E reply \in AdviceReplies : AdviceSettle(reply)
    \/ Respond

----------------------------------------------------------------------------
(* ChatDisplay *)

S_user == <<"u", "s", "e", "r">>
S_assistant == <<"a", "s", "s", "i", "s", "t", "a", "n", "t">>
S_ObjectObject ==
    <<"[", "o", "b", "j", "e", "c", "t", " ", "O", "b", "j", "e", "c", "t", "]">>
S_AnErrorOccurred ==
    <<"A", "n", " ", "e", "r", "r", "o", "r", " ", "o", "c", "c", "u", "r", "r",
      "e", "d", ":", " ">>
S_FailedToFetch ==
    <<"F", "a", "i", "l", "e", "d", " ", "t", "o", " ", "f", "e", "t", "c", "h">>
S_InvalidResponse ==
    <<"E", "r", "r", "o", "r", ":", " ", "I", "n", "v", "a", "l", "i", "d", " ",
      "r", "e", "s", "p", "o", "n", "s", "e", " ", "f", "r", "o", "m", " ", "s",
      "e", "r", "v", "e", "r">>
S_NetworkError == <<"N", "e", "t", "w", "o", "r", "k">>
S_UnexpectedToken == <<"U", "n", "e", "x", "p", "e", "c", "t", "e", "d">>
S_GeminiError == <<"G", "e", "m", "i", "n", "i">>

\* an entry of messages: content is a string, or (element) the card built from
\* the reply, of which the health advice it shows is kept
Message(type, element, content) ==
    [type |-> type, element |-> element, content |-> content]

\* `${m.content}`: a string as it is, a React element as any object
String(m) == IF m.element THEN S_ObjectObject ELSE m.content

\* messages.map(m => `${m.type}: ${m.content}`)
conversationHistory(list) ==
    [i \in DOMAIN list |->
        (IF list[i].type = "user" THEN S_user ELSE S_assistant)
            \o <<":", " ">> \o String(list[i])]

\* what the user may type
ChatInputs == {<<>>, <<" ">>, <<"h", "i">>, <<"o", "k", "?">>}

\* how the fetch of handleSubmit may end
ChatReplies ==
    {[kind |-> k, text |-> <<>>] : k \in {"networkError", "notOk", "badJson", "invalid"}}
        \cup {[kind |-> "error", text |-> S_GeminiError],
              [kind |-> "bundle", text |-> S_Rest]}

\* the entry handleSubmit appends once the fetch has settled: the card, or the
\* text of the catch block
assistantMessage(reply) ==
    CASE reply.kind = "bundle" -> Message("assistant", TRUE, reply.text)
      [] reply.kind = "invalid" -> Message("assistant", FALSE, S_InvalidResponse)
      [] reply.kind = "networkError" ->
           Message("assistant", FALSE, S_AnErrorOccurred \o S_NetworkError)
      [] reply.kind = "notOk" ->
           Message("assistant", FALSE, S_AnErrorOccurred \o S_FailedToFetch)
      [] reply.kind = "badJson" ->
           Message("assistant", FALSE, S_AnErrorOccurred \o S_UnexpectedToken)
      [] reply.kind = "error" ->
           Message("assistant", FALSE, S_AnErrorOccurred \o reply.text)

\* what a render of ChatDisplay reads from its three useState hooks
Snapshot(list, value, loading) ==
    [messages |-> list, inputValue |-> value, isLoading |-> loading]

ChatInit ==
    /\ messages = <<>>
    /\ inputValue = <<>>
    /\ isLoading = FALSE
    /\ inflight = 0
    /\ sent = <<>>
    /\ rendered = Snapshot(<<>>, <<>>, FALSE)

\* state was set since the last render
RenderPending == rendered # Snapshot(messages, inputValue, isLoading)

\* React renders ChatDisplay again: the form and the handlers now hold the
\* current state
Render ==
    /\ RenderPending
    /\ rendered' = Snapshot(messages, inputValue, isLoading)
    /\ UNCHANGED <<messages, inputValue, isLoading, inflight, sent, serverVars, cardVars>>

\* onChange of the input, which the render disabled while isLoading
onChange(value) ==
    /\ ~rendered.isLoading
    /\ inputValue' = value
    /\ UNCHANGED <<messages, isLoading, inflight, sent, rendered, serverVars, cardVars>>

\* the body handleSubmit sends; prior is the length of messages it was built from
requestBody(userInput, list) ==
    [userInput |-> userInput, conversationHistory |-> conversationHistory(list),
     prior |-> Len(list)]

\* if (!inputValue.trim() || isLoading) return, with the inputValue and the
\* isLoading of the render the handler belongs to
submitGuard == trim(rendered.inputValue) = <<>> \/ rendered.isLoading

\* handleSubmit up to `await fetch(...)`.  The handler reads inputValue,
\* isLoading and messages as rendered; the two set calls act on the state.
handleSubmit ==
    /\ Len(sent) < MaxSubmits
    /\ IF submitGuard
       THEN UNCHANGED <<messages, isLoading, inflight, sent>>
       ELSE /\ isLoading' = TRUE
            /\ messages' = Append(messages, Message("user", FALSE, rendered.inputValue))
            /\ sent' = Append(sent, requestBody(rendered.inputValue, rendered.messages))
            /\ inflight' = inflight + 1
    /\ UNCHANGED <<inputValue, rendered, serverVars, cardVars>>

\* handleSubmit from `await fetch(...)` on: try, catch and finally.  The reply
\* arrives in a later task than the submit event, after React has rendered.
FetchSettle(reply) ==
    /\ inflight > 0
    /\ ~RenderPending
    /\ inflight' = inflight - 1
    /\ messages' = Append(messages, assistantMessage(reply))
    /\ isLoading' = FALSE
    /\ inputValue' = <<>>
    /\ UNCHANGED <<sent, rendered, serverVars, cardVars>>

ChatNext ==
    \/ \E value \in ChatInputs : onChange(value)
    \/ handleSubmit
    \/ Render
    \/ \E reply \in ChatReplies : FetchSettle(reply)

----------------------------------------------------------------------------
(* TypingCard and useTypingEffect *)

\* most updater functions of one hook that wait for a render
MaxPending == 2

S_AgeLine == <<"A", "g", "e", ":", " ", "4", "3">>
\* short for 'No relevant clinical trials found.'
S_NoTrials == <<"N", "o", " ", "t", "r", "i", "a", "l", "s">>
S_Title == <<"-", ">", " ", "F", "l", "u">>
\* the texts of a card: the extracted information (here its first line, whole
\* or cut short), the health advice (which may be empty) and the trials
InfoTexts == {S_AgeLine, <<"A", "g", "e">>}
CardAdviceTexts == AdviceTexts \cup {<<"G", "o", " ", "o", "n">>}
TrialTexts == {S_NoTrials, S_Title}

\* one useTypingEffect: the two states as rendered, the startTyping the effect
\* last ran with, the i of that effect, whether its interval is set, the calls
\* of setDisplayedText that wait for a render, and whether
\* setIsTypingComplete(true) waits for it
Hook(text) ==
    [text |-> text, displayedText |-> <<>>, isTypingComplete |-> FALSE,
     startTyping |-> FALSE, i |-> 0, interval |-> FALSE, queue |-> <<>>,
     completeSet |-> FALSE]

NoCard == [mounted |-> FALSE, hook |-> [h \in 1..3 |-> Hook(<<>>)]]

\* the effect of useTypingEffect when startTyping is true: i = 0 and setInterval
\* (the two set calls before it leave '' and false as they are)
startInterval(k) == [k EXCEPT !.startTyping = TRUE, !.i = 0, !.interval = TRUE]

\* the function passed to setDisplayedText, run with the value i has then
updater(text, i, prev) ==
    LET nextChar == IF i + 1 <= Len(text) THEN <<text[i + 1]>> ELSE <<>>
    IN  IF nextChar = <<" ">> \/ i = Len(text) - 1
        THEN Slice(text, 1, Min({i + 1, Len(text)}))
        ELSE prev \o nextChar

\* a call of setDisplayedText: with a value, or with the function above
SetValue(v) == [kind |-> "value", value |-> v]
SetUpdater == [kind |-> "updater", value |-> <<>>]

\* React applies the waiting calls in order when it renders
RECURSIVE applyQueue(_, _, _, _)
applyQueue(queue, text, i, prev) ==
    IF queue = <<>> THEN prev
    ELSE applyQueue(Tail(queue), text, i,
                    IF Head(queue).kind = "value" THEN Head(queue).value
                    ELSE updater(text, i, prev))

\* The card is rendered for the first time and its effects run: the first hook
\* has startTyping true and sets its interval, the other two wait.
TypingCardMount(info, healthAdvice, trialsText) ==
    /\ ~typing.mounted
    /\ typing' = [mounted |-> TRUE,
                  hook |-> [h \in 1..3 |->
                              CASE h = 1 -> startInterval(Hook(info))
                                [] h = 2 -> Hook(healthAdvice)
                                [] h = 3 -> Hook(trialsText)]]
    /\ UNCHANGED <<serverVars, chatVars>>

\* the callback of setInterval.  React runs the function passed to
\* setDisplayedText either at once (eager, when no call waits), with i as it is,
\* or at the next render, after the i++ that follows the call.
tick(k, eager) ==
    IF k.i < Len(k.text)
    THEN [k EXCEPT !.queue = IF eager
                             THEN <<SetValue(updater(k.text, k.i, k.displayedText))>>
                             ELSE Append(@, SetUpdater),
                   !.i = @ + 1]
    ELSE [k EXCEPT !.interval = FALSE,
                   !.completeSet = TRUE,
                   !.queue = Append(@, SetValue(k.text))]

typingInterval(h, eager) ==
    /\ typing.mounted
    /\ typing.hook[h].interval
    /\ IF eager THEN typing.hook[h].queue = <<>>
       ELSE Len(typing.hook[h].queue) < MaxPending
    /\ typing' = [typing EXCEPT !.hook[h] = tick(@, eager)]
    /\ UNCHANGED <<serverVars, chatVars>>

\* what a render makes of a hook's states
commit(k) ==
    [k EXCEPT !.displayedText = applyQueue(k.queue, k.text, k.i, @),
              !.queue = <<>>,
              !.isTypingComplete = @ \/ k.completeSet,
              !.completeSet = FALSE]

\* React renders the card with the waiting state, then runs the effect of each
\* hook whose startTyping changed: the advice starts when the information is
\* complete, the trials when the advice is.
TypingCardRender ==
    /\ typing.mounted
    /\ \E h \in 1..3 : typing.hook[h].queue # <<>> \/ typing.hook[h].completeSet
    /\ LET now == [h \in 1..3 |-> commit(typing.hook[h])]
           startTyping(h) == IF h = 1 THEN TRUE ELSE now[h - 1].isTypingComplete
       IN  typing' = [typing EXCEPT
                        !.hook = [h \in 1..3 |->
                                    IF startTyping(h) /\ ~now[h].startTyping
                                    THEN startInterval(now[h]) ELSE now[h]]]
    /\ UNCHANGED <<serverVars, chatVars>>

TypingNext ==
    \/ \E info \in InfoTexts, healthAdvice \in CardAdviceTexts, trialsText \in TrialTexts :
          TypingCardMount(info, healthAdvice, trialsText)
    \/ \E h \in 1..3, eager \in BOOLEAN : typingInterval(h, eager)
    \/ TypingCardRender

----------------------------------------------------------------------------

Init == ServerInit /\ ChatInit /\ typing = NoCard

\* the route, serving one request after the other
Spec == Init /\ [][Next]_vars

\* the chat component, with the route seen through its replies
ChatSpec == Init /\ [][ChatNext]_vars

\* one assistant card, its timers firing and React rendering again and again
TypingSpec ==
    /\ Init
    /\ [][TypingNext]_vars
    /\ WF_vars(\E h \in 1..3, eager \in BOOLEAN : typingInterval(h, eager))
    /\ WF_vars(TypingCardRender)

----------------------------------------------------------------------------
(* Properties of the route *)

\* the model answered with a text that JSON.parse rejects
ParseFailed == modelOut.ok /\ ~Parses(cleanedResponse(modelOut.text))

C2_ParseFailureRecovered ==
    (pc \in {"extracted", "responded"} /\ ParseFailed) =>
        /\ extraction.state = "returned"
        /\ extraction.path = "fallback"
        /\ extraction.value.symptoms.t = "array"
        /\ response = NoResponse

\* the trial fetch failed: a non-success status, or fetchClinicalTrials raised
TrialFetchFailed == trials.cause = "notOk" \/ trials.fn.state = "rejected"

\* C3: a turn whose extraction returned and whose advice was generated, but
\* whose trial fetch failed, is answered with the success bundle, clinicalTrials
\* empty and healthAdvice the generated text.
C3_TrialFailureAbsorbed ==
    (pc = "responded" /\ extraction.state = "returned"
        /\ advice.state = "fulfilled" /\ TrialFetchFailed) =>
        response = successResponse(extraction.value, <<>>, advice.text)
C3_Witness ==
    /\ pc = "responded"
    /\ trials.cause = "transportError"
    /\ advice.state = "fulfilled"
    /\ advice.text # <<>>
    /\ response.status = OK

BundleFields == {"extractedData", "clinicalTrials", "healthAdvice"}

\* C4: every response is either the bundle of three fields with status 200 or
\* an error object alone with a non-empty message and a failure status; every
\* finished turn has one; and a turn whose advice generation raised is answered
\* with the error object.
C4_BundleOrError ==
    /\ pc = "responded" => response # NoResponse
    /\ response # NoResponse =>
          \/ response.fields = BundleFields /\ response.status = OK
          \/ /\ response.fields = {"error"}
             /\ response.error # ""
             /\ response.status >= 400
    /\ (pc = "responded" /\ advice.state = "rejected") =>
          response.fields = {"error"}
C4_Witness ==
    /\ pc = "responded"
    /\ advice.state = "rejected"
    /\ advice.calls = 1
    /\ trials.fn.state = "fulfilled"
    /\ Len(trials.fn.value) > 0
    /\ response.fields = {"error"}

\* C5: a request without userInput (absent, null or empty) is answered with a
\* 4xx response and no model call and no registry query is made for it.
C5_MissingInputRejected ==
    (pc # "idle" /\ request.valid /\ ~Truthy(request.userInput)) =>
        /\ extraction.calls = 0
        /\ advice.calls = 0
        /\ trials.queries = 0
        /\ pc = "responded"
        /\ response.status \in 400..499

\* C6, as stated: fetchClinicalTrials never raises.
C6_FetchNeverRaises == trials.fn.state # "rejected"

\* C6, amended: fetchClinicalTrials answers a non-success status with the empty
\* list, but it raises when symptoms cannot be spread, when location is not a
\* string, on a transport error and when the body is not JSON or is null; the
\* .catch chained on the call in POST turns each of these into the empty list,
\* so what POST awaits is never rejected and is empty whenever the fetch failed.
C6_RaisesAbsorbedByCatch ==
    /\ trials.fn.state = "rejected" <=>
          trials.cause \in {"symptoms", "location", "transportError",
                            "badJson", "jsonNull"}
    /\ trials.cause = "notOk" => trials.fn = Promise("fulfilled", <<>>, "")
    /\ trials.slot.state # "rejected"
    /\ TrialFetchFailed => trials.slot = Promise("fulfilled", <<>>, "")
C6_Witness ==
    /\ trials.cause = "badJson"
    /\ trials.fn.state = "rejected"
    /\ trials.slot = Promise("fulfilled", <<>>, "")

\* C7: the list fetchClinicalTrials returns, and the clinicalTrials of every
\* success bundle, has at most 5 entries.
C7_AtMostFiveTrials ==
    /\ Len(trials.fn.value) <= PageSize
    /\ Len(response.clinicalTrials) <= PageSize

\* C8: a record returned by processHealthInput whose isFollowUp is false has no
\* followUpTopic, on the parsed path and on the fallback path.
C8_TopicOnlyOnFollowUp ==
    (extraction.state = "returned" /\ extraction.value.kind = "object"
        /\ extraction.value.isFollowUp = JBool(FALSE)) =>
        extraction.value.followUpTopic.t \in {"null", "undefined"}

\* C9: in a turn the model is called at most once for the extraction and at most
\* once for the advice, and the registry is queried at most once.
C9_NoRetry ==
    /\ extraction.calls <= 1
    /\ advice.calls <= 1
    /\ trials.queries <= 1
C9_Witness ==
    /\ pc = "responded"
    /\ extraction.calls = 1
    /\ advice.state = "rejected"
    /\ advice.calls = 1
    /\ trials.fn.state = "rejected"
    /\ trials.queries = 1

\* the document b in a code fence: with the tag json, without a tag, and with
\* blanks around the fence
Fenced(b) ==
    {<<"fence", "json", "\n", b, "\n", "fence">>,
     <<"fence", "\n", b, "\n", "fence">>,
     <<" ", "fence", "json", "\n", b, "\n", "fence", "\n">>}

\* C12: when the model's reply is a well-formed JSON document in a code fence,
\* with or without the tag json and with or without blanks around it,
\* processHealthInput returns the parsed document and does not take the
\* fallback path.
C12_FenceStripped ==
    \A b \in DocNames :
        (pc \in {"extracted", "responded"} /\ modelOut.ok
            /\ modelOut.text \in Fenced(b)) =>
            extraction = Outcome("returned", "parsed", DocValue(b), "")

\* the steps a turn may take
TurnSteps ==
    {<<"idle", "extracting">>, <<"idle", "responded">>,
     <<"responded", "extracting">>, <<"responded", "responded">>,
     <<"extracting", "extracted">>, <<"extracting", "responded">>,
     <<"extracted", "inflight">>, <<"extracted", "responded">>,
     <<"inflight", "responded">>}

\* the registry query, or the advice call, is made in this step
TrialsIssued == trials.fn.state = "none" /\ trials'.fn.state # "none"
AdviceIssued == advice.state = "none" /\ advice'.state # "none"

\* C11: a turn goes received, extracting, both calls, responded.  Neither
\* fetchClinicalTrials nor generateHealthAdvice is called before
\* processHealthInput has returned; both are called in the one step that follows
\* it, so before either is awaited; the success bundle is sent only when the
\* trial fetch and the advice call have both settled; and when
\* processHealthInput raises the turn is answered with the error object and
\* neither call is ever made in it.
C11_TurnOrder ==
    /\ [](/\ (trials.fn.state # "none" \/ advice.state # "none") =>
                (extraction.state = "returned" /\ pc \in {"inflight", "responded"})
          /\ trials.fn.state = "none" <=> advice.state = "none"
          /\ response.status = OK =>
                /\ trials.fn.state \in {"fulfilled", "rejected"}
                /\ trials.slot.state = "fulfilled"
                /\ advice.state = "fulfilled"
          /\ extraction.state = "raised" =>
                /\ pc = "responded"
                /\ response.fields = {"error"}
                /\ trials = NoTrials
                /\ advice = NoAdvice)
    /\ [][/\ pc' # pc => <<pc, pc'>> \in TurnSteps
          /\ TrialsIssued <=> AdviceIssued
          /\ TrialsIssued => (pc = "extracted" /\ extraction.state = "returned")
          /\ (pc = "inflight" /\ pc' = "responded" /\ response'.status = OK) =>
                (trials.slot.state = "fulfilled" /\ advice.state = "fulfilled")]_vars
C11_Witness ==
    /\ pc = "responded"
    /\ response.status = OK
    /\ extraction.path = "parsed"
    /\ trials.queries = 1
    /\ Len(response.clinicalTrials) = 2
    /\ advice.calls = 1
    /\ response.healthAdvice = S_Rest

\* a field of the extracted record is absent
Absent(v) == v.t \in {"null", "undefined"}

\* C13, as stated: what POST gets from fetchClinicalTrials is the empty list
\* whenever the location or the condition is absent, and the registry's study
\* list on a successful reply otherwise.
C13_EmptyWithoutLocationOrCondition ==
    (trials.fn.state \in {"fulfilled", "rejected"}) =>
        IF Absent(extraction.value.location) \/ Absent(extraction.value.condition)
        THEN trials.slot = Promise("fulfilled", <<>>, "")
        ELSE trials.cause = "studies" => trials.slot = trials.fn

\* C13, amended: without a location fetchClinicalTrials raises before any
\* registry query and the .catch of POST makes that the empty list; an absent
\* condition only leaves its term out of the query, which is still sent; and
\* on a successful reply with a study list the call returns that list as
\* received.
C13_EmptyOnlyWithoutLocation ==
    (trials.fn.state # "none") =>
        LET d == extraction.value
        IN  /\ d.location.t # "string" =>
                  /\ trials.queries = 0
                  /\ trials.fn.state = "rejected"
                  /\ trials.slot = Promise("fulfilled", <<>>, "")
            /\ (d.location.t = "string" /\ d.symptoms.t \in {"array", "string"}) =>
                  /\ trials.queries = 1
                  /\ trials.country = firstToken(d.location.s)
                  /\ Absent(d.condition) =>
                        trials.query = join(spread(d.symptoms), S_OR)
                  /\ d.condition.t = "string" /\ d.condition.s # <<>> =>
                        endsWith(trials.query, d.condition.s)
            /\ trials.cause = "studies" =>
                  /\ trials.fn.state = "fulfilled"
                  /\ trials.slot = trials.fn
                  /\ \E n \in 0..MaxStudies : trials.fn.value = [i \in 1..n |-> i]
C13_Witness ==
    /\ trials.cause = "studies"
    /\ extraction.value.location.t = "string"
    /\ Absent(extraction.value.condition)
    /\ Len(trials.slot.value) = 3
    /\ pc = "responded"
    /\ Len(response.clinicalTrials) = 3

\* C14: generateHealthAdvice, once called, has built its instruction and made
\* the model call without raising, whatever record the extraction returned.  When
\* isFollowUp is true the instruction asks for the one section Answer about the
\* follow-up topic and asks for no advice per symptom; when it is false it asks
\* for general advice, for one line per reported symptom exactly when there are
\* symptoms, and for when to seek medical help.
C14_ModeByFollowUp ==
    (advice.state # "none") =>
        LET d == extraction.value
            q == advice.prompt
        IN  /\ advice.calls = 1
            /\ q.mode = IF d.isFollowUp = JBool(TRUE) THEN "followUp" ELSE "advice"
            /\ q.mode = "followUp" =>
                  /\ q.format = <<"Answer">>
                  /\ q.about = IF Absent(d.followUpTopic)
                               THEN S_TheirPreviousHealthIssue ELSE d.followUpTopic.s
                  /\ q.symptomLines = <<>>
                  /\ "eachSymptom" \notin Range(q.tail)
            /\ q.mode = "advice" =>
                  /\ Head(q.format) = "General Advice"
                  /\ q.format[Len(q.format)] = "When to Seek Medical Help"
                  /\ "Symptom-specific Advice" \in Range(q.format) <=> d.symptoms.a # <<>>
                  /\ q.symptomLines = d.symptoms.a

\* the word w (in lower case) occurs in s, letter case aside
ContainsIgnoringCase(s, w) ==
    \E i \in 1..Len(s) :
        \A k \in 1..Len(w) : i + k - 1 <= Len(s) /\ LowerChar(s[i + k - 1]) = w[k]
\* the last character of s that is not white space is c
LastNonBlankIs(s, c) ==
    \E i \in 1..Len(s) : s[i] = c /\ \A j \in (i + 1)..Len(s) : IsSpace(s[j])

\* C15: in a record returned on the fallback path isFollowUp is true exactly
\* when the input, letter case aside, contains "previous" or "earlier", or its
\* last character that is not white space is "?"; and followUpTopic is null.
C15_FallbackIsFollowUp ==
    (extraction.state = "returned" /\ extraction.path = "fallback") =>
        /\ extraction.value.isFollowUp =
              JBool(\/ ContainsIgnoringCase(request.userInput.s, W_previous)
                    \/ ContainsIgnoringCase(request.userInput.s, W_earlier)
                    \/ LastNonBlankIs(request.userInput.s, "?"))
        /\ extraction.value.followUpTopic = JNull
C15_Witness ==
    /\ extraction.state = "returned"
    /\ extraction.path = "fallback"
    /\ request.userInput.s = InputEarlier
    /\ extraction.value.isFollowUp = JBool(TRUE)
    /\ extraction.value.followUpTopic = JNull

\* the integer value of the first run of digits of s (s has a digit)
FirstDigitRun(s) ==
    LET i == Min({k \in 1..Len(s) : IsDigit(s[k])})
    IN  DigitsValue(Slice(s, i, RunEnd(s, i, "digit")))

\* C16: in a record returned on the fallback path age is the integer value of
\* the first run of digits found anywhere in the input, and is null exactly
\* when the input has no digit.
C16_FallbackAge ==
    (extraction.state = "returned" /\ extraction.path = "fallback") =>
        extraction.value.age =
            IF \E k \in 1..Len(request.userInput.s) : IsDigit(request.userInput.s[k])
            THEN JNum(FirstDigitRun(request.userInput.s))
            ELSE JNull

----------------------------------------------------------------------------
(* Properties of the chat component *)

\* C10: every request sent carries the text of its submission and, as history,
\* one string for each entry the earlier submissions added to messages, in
\* order, each containing the text of that turn, and nothing of the current
\* submission.
C10_HistoryCarriesTurns ==
    \A k \in DOMAIN sent :
        /\ sent[k].prior < Len(messages)
        /\ sent[k].userInput = messages[sent[k].prior + 1].content
        /\ Len(sent[k].conversationHistory) = sent[k].prior
        /\ \A j \in 1..sent[k].prior :
              includes(sent[k].conversationHistory[j], messages[j].content)

\* C17: messages only grows at its end, an entry once appended never changes,
\* every accepted submission has appended one user entry and, once its request
\* has settled, one assistant entry, and the entries alternate user, assistant.
C17_AppendOnlyAlternating ==
    /\ [][/\ Len(messages') >= Len(messages)
          /\ SubSeq(messages', 1, Len(messages)) = messages]_vars
    /\ [](Len(messages) = Len(sent) + (Len(sent) - inflight))
    /\ [](\A i \in DOMAIN messages :
            messages[i].type = IF i % 2 = 1 THEN "user" ELSE "assistant")

\* C18: at most one request is in flight; a call of handleSubmit made while a
\* request is in flight, before or after the render that shows isLoading, sends
\* nothing and appends nothing; and when no request is in flight isLoading is
\* false again.
C18_OneRequestInFlight ==
    /\ [](inflight <= 1)
    /\ [](inflight = 0 => ~isLoading)
    /\ [][inflight > 0 =>
            /\ sent' = sent
            /\ messages' # messages => inflight' = inflight - 1]_vars

----------------------------------------------------------------------------
(* Properties of the typing card *)

IsPrefix(p, t) == Len(p) <= Len(t) /\ p = SubSeq(t, 1, Len(p))

\* hook h shows its whole text and isTypingComplete is true
Typed(h) ==
    /\ typing.hook[h].isTypingComplete
    /\ typing.hook[h].displayedText = typing.hook[h].text

\* C19: in a card the text displayed by each hook is always a prefix of its full
\* text; the advice shows no character before the extracted information is
\* displayed in full, nor the trials before the advice is; and with timers that
\* keep firing every section ends up displayed in full with isTypingComplete
\* true.
C19_TypingInOrder ==
    /\ [](\A h \in 1..3 :
            IsPrefix(typing.hook[h].displayedText, typing.hook[h].text))
    /\ [](\A h \in 2..3 :
            typing.hook[h].displayedText # <<>> =>
                typing.hook[h - 1].displayedText = typing.hook[h - 1].text)
    /\ (typing.mounted ~> (\A h \in 1..3 : Typed(h)))

====
